---- MODULE Spec2Model ----
(***************************************************************************)
(* A model of the Fibonacci heap of src/src/lib.rs.                        *)
(*                                                                         *)
(* A heap value is a record                                                *)
(*   entries, free : the Slab arena `nodes` (entries[k+1] is slot k, an    *)
(*                   Option<TreeNode>; free is the stack of vacant slots,  *)
(*                   its head the slot the next Slab::insert fills)        *)
(*   trees         : Vec<usize>, the root list                             *)
(*   min_element   : usize                                                 *)
(*   id_counter    : usize                                                 *)
(* Option<X> is modelled as a sequence of length 0 (None) or 1 (Some).    *)
(* Every operation is an operator from heap values to an outcome record   *)
(* [h, ret, panic]; panic = TRUE stands for a Rust panic (a failed        *)
(* unwrap, Slab::remove of a vacant key).                                  *)
(***************************************************************************)
EXTENDS Integers, Sequences, FiniteSets, TLC

\* ---------------------------------------------------------------- bounds
\* the elements of the runs on two heaps are 1..MaxVal
MaxVal == 2
\* insert calls of a run of Spec or SpecKeys
MaxInserts == 3
\* insert calls of a run of SpecSort or SpecMerge
MaxNodes == 4
\* the elements of the runs on one heap (SpecSort, SpecKeys) are 1..MaxKey
MaxKey == 3
\* insert calls of a run of SpecLink
MaxLinkNodes == 5

Values == 1..MaxVal
KeyValues == 1..MaxKey
HeapNames == {"a", "b"}

\* ---------------------------------------------------------------- Option
None == <<>>
Some(x) == <<x>>
IsSome(o) == o /= <<>>
Unwrap(o) == o[1]

\* ------------------------------------------------------------- sequences
Range(s) == {s[i] : i \in 1..Len(s)}

\* Vec::swap_remove(i) (1-based i): the last element takes the place of i.
SwapRemove(s, i) ==
  LET n == Len(s)
  IN  [k \in 1..(n - 1) |-> IF k = i THEN s[n] ELSE s[k]]

\* position of the first element of s equal to x, 0 when there is none
RECURSIVE IndexFrom(_, _, _)
IndexFrom(s, x, i) ==
  IF i > Len(s) THEN 0
  ELSE IF s[i] = x THEN i
  ELSE IndexFrom(s, x, i + 1)

\* ------------------------------------------------------------- TreeNode
TreeNode_new(element, parent, handle_id, uid) ==
  [parent |-> parent, element |-> element, marked |-> FALSE,
   children |-> <<>>, handle_id |-> handle_id, uid |-> uid]

degree(node) == Len(node.children)

\* ----------------------------------------------------------------- Slab
\* Slab::get
SlabGet(h, key) ==
  IF key < Len(h.entries) THEN h.entries[key + 1] ELSE None

SlabContains(h, key) == IsSome(SlabGet(h, key))

\* the key the next Slab::insert uses
SlabNextKey(h) == IF h.free = <<>> THEN Len(h.entries) ELSE Head(h.free)

\* Slab::insert
SlabInsert(h, node) ==
  IF h.free = <<>>
  THEN [h EXCEPT !.entries = Append(@, Some(node))]
  ELSE [h EXCEPT !.entries[Head(h.free) + 1] = Some(node), !.free = Tail(@)]

\* Slab::remove of an occupied key
SlabRemove(h, key) ==
  [h EXCEPT !.entries[key + 1] = None, !.free = <<key>> \o @]

\* get_mut(key).unwrap() followed by an assignment to the node
SlabSet(h, key, node) == [h EXCEPT !.entries[key + 1] = Some(node)]

Node(h, key) == Unwrap(SlabGet(h, key))

LiveKeys(h) == {k \in 0..(Len(h.entries) - 1) : SlabContains(h, k)}

\* ------------------------------------------------------- FibonacciHeap
\* FibonacciHeap::new
new ==
  [entries |-> <<>>, free |-> <<>>, trees |-> <<>>,
   min_element |-> 0, id_counter |-> 0]

\* what a call leaves: the heap, the return site taken and the value returned
Outcome(h, site, ret) == [h |-> h, site |-> site, ret |-> ret, panic |-> FALSE]

\* the call panicked (the heap is not observed again)
Panic(h) == [h |-> h, site |-> "panic", ret |-> None, panic |-> TRUE]

find_minimum(h) ==
  IF SlabContains(h, h.min_element)
  THEN Some(Node(h, h.min_element).element)
  ELSE None

\* is_minimum with <= for <: an equal element would take over the minimum
is_minimum_or_equal(h, tree) ==
  IF IsSome(find_minimum(h))
  THEN tree.element <= Unwrap(find_minimum(h))
  ELSE FALSE

is_minimum(h, tree) ==
  IF IsSome(find_minimum(h))
  THEN tree.element < Unwrap(find_minimum(h))
  ELSE FALSE

\* returns the heap and the slot id of the tree
insert_tree(h, tree) ==
  LET isMin   == is_minimum(h, tree)
      tree_id == SlabNextKey(h)
      h1      == SlabInsert(h, tree)
      h2      == [h1 EXCEPT !.trees = Append(@, tree_id)]
  IN  [h  |-> IF isMin THEN [h2 EXCEPT !.min_element = tree_id] ELSE h2,
       id |-> tree_id]

\* insert; uid is a ghost identity of the logical node (not in the code)
insert(h, element, uid) ==
  LET h1 == [h EXCEPT !.id_counter = @ + 1]
      r  == insert_tree(h1, TreeNode_new(element, None, h1.id_counter, uid))
  IN  Outcome(r.h, "inserted", [slot |-> r.id, gen |-> h1.id_counter, uid |-> uid])

\* remove_tree without the Slab::remove: the node stays in the arena
remove_tree_keeps_node(h, tree_id_to_remove) ==
  LET index_to_remove == IndexFrom(h.trees, tree_id_to_remove, 1)
  IN  IF index_to_remove = 0 \/ ~SlabContains(h, tree_id_to_remove)
      THEN [h |-> h, node |-> None, panic |-> TRUE]
      ELSE [h |-> [h EXCEPT !.trees = SwapRemove(@, index_to_remove)],
            node |-> Some(Node(h, tree_id_to_remove)),
            panic |-> FALSE]

\* remove_tree: the first position of the id in trees (unwrap), swap_remove,
\* then Slab::remove (which panics on a vacant key)
remove_tree(h, tree_id_to_remove) ==
  LET index_to_remove == IndexFrom(h.trees, tree_id_to_remove, 1)
  IN  IF index_to_remove = 0 \/ ~SlabContains(h, tree_id_to_remove)
      THEN [h |-> h, node |-> None, panic |-> TRUE]
      ELSE [h |-> SlabRemove([h EXCEPT !.trees = SwapRemove(@, index_to_remove)],
                             tree_id_to_remove),
            node |-> Some(Node(h, tree_id_to_remove)),
            panic |-> FALSE]

\* degrees_map: HashMap<usize, usize> as a set of <<degree, tree id>> pairs
DmHas(dm, d) == \E p \in dm : p[1] = d
DmGet(dm, d) == (CHOOSE p \in dm : p[1] = d)[2]
DmRemove(dm, d) == {p \in dm : p[1] /= d}
DmInsert(dm, d, id) == DmRemove(dm, d) \cup {<<d, id>>}

\* get_mut(parent_id).children.push(child_id); get_mut(child_id).parent = Some(parent_id)
Link(h, parent_id, child_id) ==
  LET h1 == SlabSet(h, parent_id,
                    [Node(h, parent_id) EXCEPT !.children = Append(@, child_id)])
  IN  SlabSet(h1, child_id,
              [Node(h1, child_id) EXCEPT !.parent = Some(parent_id)])

\* merge_or_merge_same_degrees_tree with the equal case resolved the other
\* way: the resident root also becomes the parent when the elements are equal
MergeResidentWinsOrEqual(tree_to_merge, tree_to_insert) ==
  tree_to_merge.element <= tree_to_insert.element

\* TRUE when the resident root (tree_to_merge) becomes the parent
MergeResidentWins(tree_to_merge, tree_to_insert) ==
  tree_to_merge.element < tree_to_insert.element

RECURSIVE merge_or_merge_same_degrees_tree(_, _, _)
merge_or_merge_same_degrees_tree(h, tree_to_insert_id, dm) ==
  IF ~SlabContains(h, tree_to_insert_id)
  THEN [h |-> h, dm |-> dm, panic |-> TRUE]
  ELSE
    LET tree_to_insert == Node(h, tree_to_insert_id)
        d == degree(tree_to_insert)
    IN  IF ~DmHas(dm, d)
        THEN [h |-> h, dm |-> DmInsert(dm, d, tree_to_insert_id), panic |-> FALSE]
        ELSE
          LET tree_to_merge_id == DmGet(dm, d)
              dm1 == DmRemove(dm, d)
          IN  IF ~SlabContains(h, tree_to_merge_id)
              THEN [h |-> h, dm |-> dm1, panic |-> TRUE]
              ELSE IF MergeResidentWins(Node(h, tree_to_merge_id), tree_to_insert)
              THEN merge_or_merge_same_degrees_tree(
                     Link(h, tree_to_merge_id, tree_to_insert_id),
                     tree_to_merge_id, dm1)
              ELSE merge_or_merge_same_degrees_tree(
                     Link(h, tree_to_insert_id, tree_to_merge_id),
                     tree_to_insert_id, dm1)

\* the loop of lines 110-112 over self.trees.clone(), from position i on
RECURSIVE Consolidate(_, _, _, _)
Consolidate(h, ids, i, dm) ==
  IF i > Len(ids) THEN [h |-> h, dm |-> dm, panic |-> FALSE]
  ELSE LET r == merge_or_merge_same_degrees_tree(h, ids[i], dm)
       IN  IF r.panic THEN r ELSE Consolidate(r.h, ids, i + 1, r.dm)

\* the orders in which HashMap::values() may yield the entries of dm
ValueOrders(dm) ==
  LET n == Cardinality(dm)
  IN  {[i \in 1..n |-> f[i][2]] :
         f \in {g \in [1..n -> dm] : \A i, j \in 1..n : g[i] = g[j] => i = j}}

\* key by which lines 118-124 choose the new min_element among the roots
MinScanKey(node) == degree(node)

\* Iterator::min_by_key over trees (the first of several equal minima); every
\* nodes.get(id).unwrap() of the scan must succeed
MinScanPanics(h, trees) == \E i \in 1..Len(trees) : ~SlabContains(h, trees[i])

MinScan(h, trees) ==
  LET best == CHOOSE i \in 1..Len(trees) :
                /\ \A j \in 1..Len(trees) :
                     MinScanKey(Node(h, trees[i])) <= MinScanKey(Node(h, trees[j]))
                /\ \A j \in 1..(i - 1) :
                     MinScanKey(Node(h, trees[j])) > MinScanKey(Node(h, trees[i]))
  IN  trees[best]

\* extract_minimum up to line 112: the early returns, phase one and the
\* consolidation loop. site = "consolidated" when lines 113-126 are still to run.
ExtractPhases(h) ==
  IF h.trees = <<>>
  THEN [h |-> h, dm |-> {}, ret |-> None, site |-> "no_trees", panic |-> FALSE]
  ELSE
    LET r == remove_tree(h, h.min_element)
    IN  IF r.panic
        THEN [h |-> h, dm |-> {}, ret |-> None, site |-> "panic", panic |-> TRUE]
        ELSE
          LET removed_root == Unwrap(r.node)
              h1 == [r.h EXCEPT !.trees = @ \o removed_root.children]
          IN  IF h1.trees = <<>>
              THEN [h |-> h1, dm |-> {}, ret |-> Some(removed_root.element),
                    site |-> "last_tree", panic |-> FALSE]
              ELSE
                LET c == Consolidate(h1, h1.trees, 1, {})
                IN  [h |-> c.h, dm |-> c.dm, ret |-> Some(removed_root.element),
                     site |-> IF c.panic THEN "panic" ELSE "consolidated",
                     panic |-> c.panic]

\* lines 113-126, with `order` the order in which degrees_map.values() came
ExtractFinish(p, order) ==
  IF p.panic THEN Panic(p.h)
  ELSE IF p.site /= "consolidated" THEN Outcome(p.h, p.site, p.ret)
  ELSE IF MinScanPanics(p.h, order) THEN Panic(p.h)
  ELSE Outcome([p.h EXCEPT !.trees = order, !.min_element = MinScan(p.h, order)],
               "consolidated", p.ret)

\* every outcome extract_minimum can have on h
extract_minimum(h) ==
  LET p == ExtractPhases(h)
  IN  IF p.site /= "consolidated" THEN {ExtractFinish(p, <<>>)}
      ELSE {ExtractFinish(p, order) : order \in ValueOrders(p.dm)}

\* cut: both get_mut(..).unwrap() must succeed
cut(h, node_id, parent_id) ==
  IF ~SlabContains(h, parent_id)
  THEN [h |-> h, panic |-> TRUE]
  ELSE
    LET parent == Node(h, parent_id)
        h1 == SlabSet(h, parent_id,
                      [parent EXCEPT !.children = SelectSeq(@, LAMBDA c : c /= node_id)])
    IN  IF ~SlabContains(h1, node_id)
        THEN [h |-> h1, panic |-> TRUE]
        ELSE [h |-> [SlabSet(h1, node_id, [Node(h1, node_id) EXCEPT !.parent = None])
                       EXCEPT !.trees = Append(@, node_id)],
              panic |-> FALSE]

RECURSIVE mark_or_cut(_, _)
mark_or_cut(h, node_id) ==
  IF ~SlabContains(h, node_id)
  THEN [h |-> h, panic |-> TRUE]
  ELSE
    LET parent_opt == Node(h, node_id).parent
    IN  IF parent_opt = None
        THEN [h |-> h, panic |-> FALSE]
        ELSE
          LET parent_id == Unwrap(parent_opt)
          IN  IF ~SlabContains(h, parent_id)
              THEN [h |-> h, panic |-> TRUE]
              ELSE IF Node(h, parent_id).marked
              THEN LET c == cut(h, node_id, parent_id)
                   IN  IF c.panic THEN c ELSE mark_or_cut(c.h, parent_id)
              ELSE cut(SlabSet(h, parent_id,
                               [Node(h, parent_id) EXCEPT !.marked = TRUE]),
                       node_id, parent_id)

\* lines 148-151 and 177-180: store the element, then the is_minimum test
StoreAndTrackMin(h, node_id, new_element) ==
  LET h1 == SlabSet(h, node_id, [Node(h, node_id) EXCEPT !.element = new_element])
  IN  IF is_minimum(h1, Node(h1, node_id))
      THEN [h1 EXCEPT !.min_element = node_id]
      ELSE h1

\* line 142 with the comparison reversed
RejectsSmallerElement(new_element, node) == new_element < node.element

\* line 142: the request is rejected
RejectsNewElement(new_element, node) == new_element > node.element

\* line 157: "heap property not violated", the early return of a non-root
KeepsHeapOrder(parent, new_element) == parent.element < new_element

\* line 139: the handle is the one the node was created with
HandleMatches(node, handle) == node.handle_id = handle.gen

decrease_key(h, handle, new_element) ==
  LET node_id == handle.slot
  IN  IF ~SlabContains(h, node_id) THEN Outcome(h, "not_in_heap", None)
      ELSE
        LET node == Node(h, node_id)
        IN  IF ~HandleMatches(node, handle) THEN Outcome(h, "deleted", None)
            ELSE IF RejectsNewElement(new_element, node) THEN Outcome(h, "greater", None)
            ELSE IF node.parent = None
            THEN Outcome(StoreAndTrackMin(h, node_id, new_element), "root", None)
            ELSE
              LET parent_id == Unwrap(node.parent)
              IN  IF ~SlabContains(h, parent_id) THEN Panic(h)
                  ELSE IF KeepsHeapOrder(Node(h, parent_id), new_element)
                  THEN Outcome(h, "not_violated", None)
                  ELSE
                    LET m == mark_or_cut(h, node_id)
                    IN  IF m.panic THEN Panic(h)
                        ELSE Outcome(StoreAndTrackMin(m.h, node_id, new_element),
                                     "cut", None)

\* the nodes merge takes out of heap_to_merge: the ids listed in its trees
MergedIds(heap_to_merge) == heap_to_merge.trees

\* merge: for each id, heap_to_merge.nodes.remove(id) (panics on a vacant
\* key), then self.insert_tree(tree)
RECURSIVE MergeLoop(_, _, _, _)
MergeLoop(self, heap_to_merge, ids, i) ==
  IF i > Len(ids) THEN Outcome(self, "merged", None)
  ELSE IF ~SlabContains(heap_to_merge, ids[i]) THEN Panic(self)
  ELSE MergeLoop(insert_tree(self, Node(heap_to_merge, ids[i])).h,
                 SlabRemove(heap_to_merge, ids[i]), ids, i + 1)

merge(self, heap_to_merge) ==
  MergeLoop(self, heap_to_merge, MergedIds(heap_to_merge), 1)

\* delete: the body is unimplemented!(), every call panics
delete(h, element) == Panic(h)

\* ---------------------------------------------------------------- state
\* hp       : the two heaps of the program, "a" and "b" (b is merged into a)
\* handles  : the NodeIDs insert has returned for the heaps still in use
\* uids     : the number of insert calls so far (the ghost node identities)
\* last     : the last call and what it returned
\* panicked : a call has panicked; the program has ended
\* log      : for the insert-then-drain runs (SpecSort): the values inserted,
\*            the values extracted, and the phase of the run
VARIABLES hp, handles, uids, last, panicked, log

vars == <<hp, handles, uids, last, panicked, log>>

Call(op, n, r) == [op |-> op, heap |-> n, site |-> r.site, ret |-> r.ret]

Handle(n, nodeid) == [heap |-> n] @@ nodeid

\* a panicking call aborts the program: the heap is not observed again
After(n, r) == IF r.panic THEN hp ELSE [hp EXCEPT ![n] = r.h]

Init ==
  /\ hp = [n \in HeapNames |-> new]
  /\ handles = {}
  /\ uids = 0
  /\ last = Call("new", "a", Outcome(new, "new", None))
  /\ panicked = FALSE
  /\ log = [ins |-> <<>>, out |-> <<>>, phase |-> "insert"]

Insert(n, v) ==
  /\ ~panicked
  /\ LET r == insert(hp[n], v, uids + 1)
     IN  /\ hp' = After(n, r)
         /\ handles' = handles \cup {Handle(n, r.ret)}
         /\ last' = Call("insert", n, [r EXCEPT !.ret = None])
  /\ uids' = uids + 1
  /\ UNCHANGED panicked

ExtractMinimum(n) ==
  /\ ~panicked
  /\ \E r \in extract_minimum(hp[n]) :
       /\ hp' = After(n, r)
       /\ panicked' = r.panic
       /\ last' = Call("extract_minimum", n, r)
  /\ UNCHANGED <<handles, uids>>

DecreaseKey(hd, v) ==
  /\ ~panicked
  /\ LET r == decrease_key(hp[hd.heap], hd, v)
     IN  /\ hp' = After(hd.heap, r)
         /\ panicked' = r.panic
         /\ last' = Call("decrease_key", hd.heap, r)
  /\ UNCHANGED <<handles, uids>>

\* let a = a.merge(b); let b = FibonacciHeap::new();
Merge ==
  /\ ~panicked
  /\ LET r == merge(hp["a"], hp["b"])
     IN  /\ hp' = IF r.panic THEN hp ELSE [a |-> r.h, b |-> new]
         /\ panicked' = r.panic
         /\ last' = Call("merge", "a", r)
  /\ handles' = {hd \in handles : hd.heap = "a"}
  /\ UNCHANGED uids

Delete(n, element) ==
  /\ ~panicked
  /\ LET r == delete(hp[n], element)
     IN  /\ hp' = After(n, r)
         /\ panicked' = r.panic
         /\ last' = Call("delete", n, r)
  /\ UNCHANGED <<handles, uids>>

\* any interleaving of the public operations on the two heaps
AnyInsert(n, v) == uids < MaxInserts /\ Insert(n, v) /\ UNCHANGED log

AnyExtractMinimum(n) == ExtractMinimum(n) /\ UNCHANGED log

AnyDecreaseKey(hd, v) == DecreaseKey(hd, v) /\ UNCHANGED log

AnyMerge == Merge /\ UNCHANGED log

Next ==
  \/ \E n \in HeapNames, v \in Values : AnyInsert(n, v)
  \/ \E n \in HeapNames : AnyExtractMinimum(n)
  \/ \E hd \in handles, v \in Values : AnyDecreaseKey(hd, v)
  \/ AnyMerge

Spec == Init /\ [][Next]_vars

\* ------------------------------------------------ insert, then drain
\* a.insert(v), up to MaxNodes times from the new heap
SortInsert(v) ==
  /\ log.phase = "insert"
  /\ Len(log.ins) < MaxNodes
  /\ Insert("a", v)
  /\ log' = [log EXCEPT !.ins = Append(@, v)]

\* a.extract_minimum(), repeated until it returns None
SortExtract ==
  /\ log.phase \in {"insert", "extract"}
  /\ ExtractMinimum("a")
  /\ log' = IF panicked' THEN log
            ELSE IF last'.ret = None THEN [log EXCEPT !.phase = "done"]
            ELSE [log EXCEPT !.phase = "extract", !.out = Append(@, Unwrap(last'.ret))]

SortNext ==
  \/ \E v \in KeyValues : SortInsert(v)
  \/ SortExtract

SpecSort == Init /\ [][SortNext]_vars

\* ------------------------------------------ insert, extract and merge
\* the interleavings of insert, extract_minimum and merge on the two heaps,
\* with up to MaxNodes insert calls
FeedInsert(n, v) == uids < MaxNodes /\ Insert(n, v) /\ UNCHANGED log

FeedExtractMinimum(n) == ExtractMinimum(n) /\ UNCHANGED log

FeedMerge == Merge /\ UNCHANGED log

MergeNext ==
  \/ \E n \in HeapNames, v \in Values : FeedInsert(n, v)
  \/ \E n \in HeapNames : FeedExtractMinimum(n)
  \/ FeedMerge

SpecMerge == Init /\ [][MergeNext]_vars

\* ------------------------------------- one heap, with decrease_key
\* the interleavings of insert, extract_minimum and decrease_key on the
\* heap a, with up to MaxInserts insert calls and the elements 1..MaxKey
KeyInsert(v) == uids < MaxInserts /\ Insert("a", v) /\ UNCHANGED log

KeyExtractMinimum == ExtractMinimum("a") /\ UNCHANGED log

KeyDecreaseKey(hd, v) == DecreaseKey(hd, v) /\ UNCHANGED log

KeysNext ==
  \/ \E v \in KeyValues : KeyInsert(v)
  \/ KeyExtractMinimum
  \/ \E hd \in handles, v \in KeyValues : KeyDecreaseKey(hd, v)

SpecKeys == Init /\ [][KeysNext]_vars

\* ------------------- insert, extract and merge, then one decrease_key
\* any interleaving of insert, extract_minimum and merge on the two heaps
\* (log.phase = "insert"), closed by a single decrease_key call
OnceInsert(n, v) ==
  log.phase = "insert" /\ uids < MaxInserts /\ Insert(n, v) /\ UNCHANGED log

OnceExtractMinimum(n) == log.phase = "insert" /\ ExtractMinimum(n) /\ UNCHANGED log

OnceMerge == log.phase = "insert" /\ Merge /\ UNCHANGED log

OnceDecreaseKey(hd, v) ==
  /\ log.phase = "insert"
  /\ DecreaseKey(hd, v)
  /\ log' = [log EXCEPT !.phase = "decreased"]

OnceNext ==
  \/ \E n \in HeapNames, v \in Values : OnceInsert(n, v)
  \/ \E n \in HeapNames : OnceExtractMinimum(n)
  \/ OnceMerge
  \/ \E hd \in handles, v \in Values : OnceDecreaseKey(hd, v)

SpecOnce == Init /\ [][OnceNext]_vars

\* ------------------------------------------------ one heap, with delete
\* the interleavings of insert, extract_minimum and delete on the heap a
GoneInsert(v) == uids < MaxInserts /\ Insert("a", v) /\ UNCHANGED log

GoneExtractMinimum == ExtractMinimum("a") /\ UNCHANGED log

GoneDelete(element) == Delete("a", element) /\ UNCHANGED log

DeleteNext ==
  \/ \E v \in KeyValues : GoneInsert(v)
  \/ GoneExtractMinimum
  \/ \E element \in KeyValues : GoneDelete(element)

SpecDelete == Init /\ [][DeleteNext]_vars

\* ------------------------------------ one heap, insert and extract only
\* the interleavings of insert and extract_minimum on the heap a, with up
\* to MaxLinkNodes insert calls: enough roots for consolidation to link
\* trees of degree 0 and then the resulting trees of degree 1
LinkInsert(v) == uids < MaxLinkNodes /\ Insert("a", v) /\ UNCHANGED log

LinkExtractMinimum == ExtractMinimum("a") /\ UNCHANGED log

LinkNext ==
  \/ \E v \in Values : LinkInsert(v)
  \/ LinkExtractMinimum

SpecLink == Init /\ [][LinkNext]_vars

\* ------------------------------------------------------------ vocabulary
\* number of live nodes of the arena (the element count of the heap)
Count(h) == Cardinality(LiveKeys(h))

\* the logical nodes (ghost identities) live in the arena
LiveUids(h) == {Node(h, k).uid : k \in LiveKeys(h)}

\* the handle still designates the node it was issued for
Live(hd) ==
  /\ SlabContains(hp[hd.heap], hd.slot)
  /\ Node(hp[hd.heap], hd.slot).uid = hd.uid

\* the node the handle was issued for has been extracted
Stale(hd) == hd.uid \notin LiveUids(hp[hd.heap])

ValueOf(hd) == Node(hp[hd.heap], hd.slot).element

IsSorted(s) == \A i \in 1..(Len(s) - 1) : s[i] <= s[i + 1]

Occurrences(s, x) == Cardinality({i \in 1..Len(s) : s[i] = x})

SameValues(s, t) == Len(s) = Len(t) /\ \A x \in Range(s) \cup Range(t) : Occurrences(s, x) = Occurrences(t, x)

SeqMin(s) == CHOOSE x \in Range(s) : \A y \in Range(s) : x <= y

\* the smaller of two Option values, None standing for "no minimum"
OptMin(x, y) ==
  IF x = None THEN y
  ELSE IF y = None THEN x
  ELSE IF Unwrap(y) < Unwrap(x) THEN y ELSE x

\* min_element is a live root not greater than any root
MinCorrect(h) ==
  /\ SlabContains(h, h.min_element)
  /\ h.min_element \in Range(h.trees)
  /\ \A t \in Range(h.trees) :
       SlabContains(h, t) => Node(h, h.min_element).element <= Node(h, t).element

\* ------------------------------------------------------------------- C1
\* C1: values inserted into an empty heap and then extracted until
\* extract_minimum returns None come out each once, in non-decreasing order.
C1_HeapSort ==
  log.phase = "done" => IsSorted(log.out) /\ SameValues(log.out, log.ins)

\* ------------------------------------------------------------------- C2
\* C2: after every operation on a non-empty heap, min_element refers to a
\* live root whose value is <= the value of every other root.
C2_MinCorrect ==
  ~panicked => \A n \in HeapNames : hp[n].trees /= <<>> => MinCorrect(hp[n])

\* ------------------------------------------------------------------- C3
\* C3: while only insert has been called on a new heap, find_minimum is the
\* smallest value inserted so far, and the tracked minimum is the first node
\* inserted with that value (it is replaced only by a strictly smaller one).
C3_InsertTracksMin ==
  (log.phase = "insert" /\ log.ins /= <<>>) =>
    /\ find_minimum(hp["a"]) = Some(SeqMin(log.ins))
    /\ Node(hp["a"], hp["a"].min_element).uid = IndexFrom(log.ins, SeqMin(log.ins), 1)

\* three inserts, the minimum arriving second and once more third
C3_Witness ==
  /\ log.phase = "insert"
  /\ last.op = "insert"
  /\ Len(log.ins) = 3
  /\ log.ins[2] < log.ins[1]
  /\ log.ins[3] = log.ins[2]
  /\ hp["a"].min_element = 1

\* ------------------------------------------------------------------- C4
\* C4: merge(A, B) keeps every element: the result has
\* Count(A) + Count(B) live nodes and every node of B is live in it.
C4_MergeKeepsAll ==
  [][(Merge /\ ~panicked') =>
       /\ Count(hp'["a"]) = Count(hp["a"]) + Count(hp["b"])
       /\ LiveUids(hp["b"]) \subseteq LiveUids(hp'["a"])]_vars

\* ------------------------------------------------------------------- C5
\* C5: after merge(A, B), find_minimum is the smaller of find_minimum(A) and
\* find_minimum(B), an empty operand counting as having no minimum.
C5_MergeMin ==
  [][(Merge /\ ~panicked') =>
       find_minimum(hp'["a"]) = OptMin(find_minimum(hp["a"]), find_minimum(hp["b"]))]_vars

\* ------------------------------------------------------------------- C6
\* the heap holds no elements: no root, or no live node
HoldsNoElements(h) == h.trees = <<>> \/ LiveKeys(h) = {}

\* C6: on a heap that holds no elements find_minimum returns None and
\* extract_minimum returns None, without a panic and leaving the heap as it was.
C6_EmptyIsNone ==
  ~panicked =>
    \A n \in HeapNames :
      HoldsNoElements(hp[n]) =>
        /\ find_minimum(hp[n]) = None
        /\ extract_minimum(hp[n]) = {Outcome(hp[n], "no_trees", None)}

\* extract_minimum has returned None on a heap that was used and then emptied
C6_Witness ==
  /\ ~panicked
  /\ last.op = "extract_minimum"
  /\ last.site = "no_trees"
  /\ hp[last.heap].entries /= <<>>
  /\ HoldsNoElements(hp[last.heap])

\* ------------------------------------------------------------------- C7
\* C7: decrease_key with a handle whose node has been extracted leaves the
\* heap unchanged, whatever now occupies the handle's slot.
C7_StaleRejected ==
  [][\A hd \in handles, v \in Values :
       (Stale(hd) /\ DecreaseKey(hd, v)) => (hp' = hp /\ ~panicked')]_vars

\* ------------------------------------------------------------------- C8
\* C8: decrease_key on a live handle with a value strictly greater than the
\* node's returns at line 143 and leaves the whole heap unchanged.
C8_GreaterIsNoOp ==
  ~panicked =>
    \A hd \in handles, v \in Values :
      (Live(hd) /\ v > ValueOf(hd)) =>
        decrease_key(hp[hd.heap], hd, v) = Outcome(hp[hd.heap], "greater", None)

\* such a call has been made while the heap held a tree with a child
C8_Witness ==
  /\ ~panicked
  /\ last.op = "decrease_key"
  /\ last.site = "greater"
  /\ \E k \in LiveKeys(hp[last.heap]) : Node(hp[last.heap], k).children /= <<>>

\* ------------------------------------------------------------------- C9
\* C9: decrease_key on a live handle with a value not strictly smaller than
\* the node's (equal included) changes nothing in the heap.
C9_NotSmallerIsNoOp ==
  [][\A hd \in handles, v \in Values :
       (Live(hd) /\ v >= ValueOf(hd) /\ DecreaseKey(hd, v)) =>
         (hp' = hp /\ ~panicked')]_vars

\* ------------------------------------------------------------------ C10
\* the heap with the element of slot k set to x
WithElement(h, k, x) == SlabSet(h, k, [Node(h, k) EXCEPT !.element = x])

\* the node of the handle is a child whose parent is live and not greater than v
OrderKeptUnder(hd, v) ==
  LET h == hp[hd.heap]
      p == Node(h, hd.slot).parent
  IN  /\ p /= None
      /\ SlabContains(h, Unwrap(p))
      /\ Node(h, Unwrap(p)).element <= v

\* C10: decrease_key on a live handle with a value not greater than the
\* node's stores the value; when the node is a child and the value still
\* respects heap order, nothing else changes.
C10_StoresValue ==
  [][\A hd \in handles, v \in KeyValues :
       (Live(hd) /\ v <= ValueOf(hd) /\ DecreaseKey(hd, v)) =>
         /\ ~panicked'
         /\ SlabContains(hp'[hd.heap], hd.slot)
         /\ Node(hp'[hd.heap], hd.slot).element = v
         /\ OrderKeptUnder(hd, v) =>
              hp' = [hp EXCEPT ![hd.heap] = WithElement(@, hd.slot, v)]]_vars

\* ------------------------------------------------------------------ C11
\* v is strictly smaller than every element of the heap of the handle
BelowAll(hd, v) ==
  \A k \in LiveKeys(hp[hd.heap]) : v < Node(hp[hd.heap], k).element

\* C11: after inserts, merges and extractions only, decrease_key on a live
\* handle with a value strictly smaller than every element of the heap
\* completes, leaves the node a root and makes find_minimum return the value.
C11_DecreaseToMin ==
  [][\A hd \in handles, v \in Values :
       (Live(hd) /\ BelowAll(hd, v) /\ OnceDecreaseKey(hd, v)) =>
         /\ ~panicked'
         /\ find_minimum(hp'[hd.heap]) = Some(v)
         /\ Node(hp'[hd.heap], hd.slot).parent = None
         /\ hd.slot \in Range(hp'[hd.heap].trees)]_vars

\* ------------------------------------------------------------------ C12
\* the elements held by the live nodes of a heap, by node identity
Held(h) == {<<Node(h, k).uid, Node(h, k).element>> : k \in LiveKeys(h)}

\* C12: delete of an element the heap holds completes and removes exactly
\* one node holding it, whatever its position: the count drops by one and
\* every other node remains.
C12_DeleteRemoves ==
  [][\A element \in KeyValues :
       ((\E e \in Held(hp["a"]) : e[2] = element) /\ GoneDelete(element)) =>
         /\ ~panicked'
         /\ Count(hp'["a"]) = Count(hp["a"]) - 1
         /\ \E e \in Held(hp["a"]) :
              e[2] = element /\ Held(hp'["a"]) = Held(hp["a"]) \ {e}]_vars

\* ------------------------------------------------------------------ C13
\* trees lists exactly the live nodes without a parent, each once
RootsConsistent(h) ==
  /\ \A i \in 1..Len(h.trees) :
       SlabContains(h, h.trees[i]) /\ Node(h, h.trees[i]).parent = None
  /\ \A i, j \in 1..Len(h.trees) : h.trees[i] = h.trees[j] => i = j
  /\ \A k \in LiveKeys(h) : Node(h, k).parent = None => k \in Range(h.trees)

\* C13: after every public operation the root list of each heap holds
\* exactly the live parentless nodes, each once; the children of an
\* extracted minimum are roots with their parent cleared.
C13_RootConsistency ==
  ~panicked => \A n \in HeapNames : RootsConsistent(hp[n])

\* ------------------------------------------------------------------ C14
\* no node listed in trees carries the mark
RootsUnmarked(h) ==
  \A i \in 1..Len(h.trees) :
    SlabContains(h, h.trees[i]) => ~Node(h, h.trees[i]).marked

\* C14: after every public operation no root is marked: the cascade never
\* marks a root, and a node that becomes a root has its mark cleared.
C14_MarkDiscipline ==
  ~panicked => \A n \in HeapNames : RootsUnmarked(hp[n])

\* ------------------------------------------------------------------ C15
\* every live node listed among the children of a live node holds an
\* element not smaller than that node's
HeapOrdered(h) ==
  \A k \in LiveKeys(h) :
    \A i \in 1..Len(Node(h, k).children) :
      LET c == Node(h, k).children[i]
      IN  SlabContains(h, c) => Node(h, c).element >= Node(h, k).element

\* C15: after any interleaving of insert, merge, extract_minimum and
\* decrease_key every live child holds an element >= its parent's.
C15_HeapOrder ==
  ~panicked => \A n \in HeapNames : HeapOrdered(hp[n])

\* ------------------------------------------------------------------ C16
\* C16: no call of insert, merge, find_minimum, extract_minimum or
\* decrease_key, with any issued handle, aborts: every arena lookup that is
\* unwrapped finds a live node.
C16_NoAbort == ~panicked

\* ------------------------------------------------------------------ C17
\* the content of trees when the consolidation loop starts (line 109): the
\* roots left by remove_tree, then the children of the removed minimum
RootsBeforeConsolidation(h) ==
  LET r == remove_tree(h, h.min_element)
  IN  Range(r.h.trees \o Unwrap(r.node).children)

\* the ids reached from the set S through at most n children lists
RECURSIVE Below(_, _, _)
Below(h, S, n) ==
  IF n = 0 THEN S
  ELSE Below(h, S \cup UNION {Range(Node(h, k).children) : k \in S \cap LiveKeys(h)},
             n - 1)

\* the consolidation that took h0 to h has pushed id to a children list
LinkedUnder(h0, h, id) ==
  \E k \in LiveKeys(h) :
    Occurrences(Node(h, k).children, id) > Occurrences(Node(h0, k).children, id)

DistinctDegrees(h) ==
  \A i, j \in 1..Len(h.trees) :
    degree(Node(h, h.trees[i])) = degree(Node(h, h.trees[j])) => i = j

\* C17: after an extract_minimum that leaves the heap non-empty, the roots
\* have pairwise distinct degrees, every root present before consolidation
\* is a root or a descendant of a root, and no root linked under another
\* is still in the root list.
C17_Consolidated ==
  [][\A n \in HeapNames :
       (ExtractMinimum(n) /\ ~panicked' /\ last'.site = "consolidated") =>
         LET before == RootsBeforeConsolidation(hp[n])
             h == hp'[n]
         IN  /\ DistinctDegrees(h)
             /\ before \subseteq Below(h, Range(h.trees), Count(h))
             /\ \A id \in before :
                  LinkedUnder(hp[n], h, id) => id \notin Range(h.trees)]_vars

\* ------------------------------------------------------------------ C18
\* the heap when the consolidation loop starts (line 109)
BeforeConsolidation(h) ==
  LET r == remove_tree(h, h.min_element)
  IN  [r.h EXCEPT !.trees = @ \o Unwrap(r.node).children]

\* the root the link rule makes the parent: the strictly smaller of the
\* two, and the newly processed one when the elements are equal
RuleParent(h, resident, processed) ==
  IF Node(h, resident).element < Node(h, processed).element
  THEN resident ELSE processed

\* g is h with child pushed to the children of parent and parent made the
\* parent of child, nothing else changed
LinkedAs(h, g, parent, child) ==
  /\ LiveKeys(g) = LiveKeys(h)
  /\ Node(g, parent) =
       [Node(h, parent) EXCEPT !.children = Append(@, child)]
  /\ Node(g, child) = [Node(h, child) EXCEPT !.parent = Some(parent)]
  /\ \A k \in LiveKeys(h) \ {parent, child} : Node(g, k) = Node(h, k)

\* the collision of the root `processed` with the resident root of its degree
CollisionFollowsRule(h, resident, processed) ==
  LET d   == degree(Node(h, processed))
      out == merge_or_merge_same_degrees_tree(h, processed, {<<d, resident>>})
      p   == RuleParent(h, resident, processed)
      c   == IF p = resident THEN processed ELSE resident
  IN  /\ ~out.panic
      /\ LinkedAs(h, out.h, p, c)
      /\ out.dm = {<<d + 1, p>>}

\* C18: when consolidation meets two roots of the same degree, the one
\* with the strictly smaller element becomes the parent of the other; with
\* equal elements the newly processed root becomes the parent of the
\* resident one; the parent is re-inserted under its new degree. An
\* extraction that leaves exactly two roots of one degree ends with the
\* parent the rule names as the only root.
C18_LinkRule ==
  [][(LinkExtractMinimum /\ ~panicked' /\ last'.site = "consolidated") =>
       LET h == BeforeConsolidation(hp["a"])
           g == hp'["a"]
       IN  /\ \A i, j \in 1..Len(h.trees) :
                (i /= j /\ degree(Node(h, h.trees[i])) = degree(Node(h, h.trees[j])))
                  => CollisionFollowsRule(h, h.trees[i], h.trees[j])
           /\ (Len(h.trees) = 2 /\ degree(Node(h, h.trees[1])) = degree(Node(h, h.trees[2])))
                => /\ g.trees = <<RuleParent(h, h.trees[1], h.trees[2])>>
                   /\ LinkedAs(h, g, RuleParent(h, h.trees[1], h.trees[2]),
                               IF RuleParent(h, h.trees[1], h.trees[2]) = h.trees[1]
                               THEN h.trees[2] ELSE h.trees[1])]_vars

\* an extraction has linked two roots of equal element and the resulting
\* tree has collided again: a root of degree 2 with a child of its element
C18_Witness ==
  /\ ~panicked
  /\ last.op = "extract_minimum" /\ last.site = "consolidated"
  /\ \E i \in 1..Len(hp["a"].trees) :
       LET p == Node(hp["a"], hp["a"].trees[i])
       IN  /\ degree(p) = 2
           /\ Node(hp["a"], p.children[1]).element = p.element
====
